---- MODULE Spec2Model ----
(***************************************************************************)
(* The word-learning video generator (src/main.py): the LLM word-info      *)
(* step with its JSON parse and failure log, the audio mixer, the per-word *)
(* pipeline with its scratch files, and the batching word loop.            *)
(*                                                                         *)
(* Four specifications share the variables:                                *)
(*   SpecWordInfo  one call of generate_word_info on a response text       *)
(*   SpecAudio     one call of combine_mp3s on a list of clips             *)
(*   Spec          the word loop of __main__, stage by stage               *)
(*   SpecFromCache one call of combine_videos_from_cache_files             *)
(***************************************************************************)
EXTENDS Integers, Sequences, FiniteSets, TLC

VARIABLES
    pc,           \* control position
    start,        \* the value count is set to before the loop (the offset)
    stop,         \* the end index of the slice word_list[count:stop]
    count,        \* main.py count
    word_info,    \* result of generate_word_info for the current word
    video_paths,  \* main.py video_paths, the batch list
    cache,        \* scratch files present in cache_dir
    videos,       \* per-word video files present in cache_dir
    outputs,      \* files written to output_dir by combine_videos
    log,          \* content of output_dir/failed_words.txt
    log0,         \* content of failed_words.txt when the call under study began
    calls,        \* every list passed to combine_videos so far, in order
    results,      \* outcome of generate_video_for_word per processed word
    consumed,     \* scratch files of this word already read by their consumer
    scratch0,     \* scratch files present when the latest call (or the run) began
    fault,        \* the exception that ended the run, "none" if none
    ret,          \* value returned by the call under study
    response,     \* LLM response text handed to generate_word_info
    word,         \* the word handed to generate_word_info
    clips,        \* clip durations (ms) handed to combine_mp3s
    track         \* segments of the track combine_mp3s exported

vars == <<pc, start, stop, count, word_info, video_paths, cache, videos,
          outputs, log, log0, calls, results, consumed, scratch0, fault, ret,
          response, word, clips, track>>

(***************************************************************************)
(* Text.  A text is a sequence of tokens; its characters are the tokens'   *)
(* lexemes joined.  "str" is a double-quoted string, "sq" a single-quoted  *)
(* one (the prompt's own example uses these; JSON does not know them),     *)
(* "bare" any other run of characters, "ws" a blank or a line break.       *)
(***************************************************************************)
Tok(k, v) == [k |-> k, v |-> v]
LB == Tok("p", "{")
RB == Tok("p", "}")
LK == Tok("p", "[")
RK == Tok("p", "]")
CL == Tok("p", ":")
CM == Tok("p", ",")
SP == Tok("ws", " ")
NL == Tok("ws", "\n")
Str(s) == Tok("str", s)
Sq(s) == Tok("sq", s)
Num(s) == Tok("num", s)
Lit(s) == Tok("lit", s)
Bare(s) == Tok("bare", s)

(***************************************************************************)
(* Python values.  A dict is its items in insertion order; a list is its   *)
(* elements, each under the key "".                                        *)
(***************************************************************************)
PyNone == [t |-> "None", s |-> "", kids |-> <<>>]
PyStr(s) == [t |-> "str", s |-> s, kids |-> <<>>]
PyNum(s) == [t |-> "int", s |-> s, kids |-> <<>>]
PyBool(s) == [t |-> "bool", s |-> s, kids |-> <<>>]
PyList(items) == [t |-> "list", s |-> "", kids |-> items]
PyDict(items) == [t |-> "dict", s |-> "", kids |-> items]
Item(k, v) == [k |-> k, v |-> v]

Keys(d) == {d.kids[i].k : i \in 1..Len(d.kids)}

\* d[k] for a key the dict holds
Get(d, k) == LET i == CHOOSE j \in 1..Len(d.kids) : d.kids[j].k = k
             IN d.kids[i].v

\* d[k] = v: a present key keeps its place, a new one goes last
DictSet(d, k, v) ==
    IF k \in Keys(d)
    THEN PyDict([i \in 1..Len(d.kids) |->
                    IF d.kids[i].k = k THEN Item(k, v) ELSE d.kids[i]])
    ELSE PyDict(Append(d.kids, Item(k, v)))

(***************************************************************************)
(* json.loads: one JSON value with optional white space around it, and     *)
(* nothing else.                                                           *)
(***************************************************************************)
RECURSIVE SkipWs(_, _)
SkipWs(toks, i) ==
    IF i <= Len(toks) /\ toks[i].k = "ws" THEN SkipWs(toks, i + 1) ELSE i

NoParse == [ok |-> FALSE, v |-> PyNone, next |-> 0]
Parsed(v, next) == [ok |-> TRUE, v |-> v, next |-> next]

IsP(toks, i, c) == i <= Len(toks) /\ toks[i] = Tok("p", c)

RECURSIVE ParseValue(_, _)
RECURSIVE ParseMembers(_, _, _)
RECURSIVE ParseElements(_, _, _)

\* toks[i] is the first token of a value
ParseValue(toks, i) ==
    IF i > Len(toks) THEN NoParse
    ELSE LET t == toks[i] IN
      CASE t.k = "str" -> Parsed(PyStr(t.v), i + 1)
        [] t.k = "num" -> Parsed(PyNum(t.v), i + 1)
        [] t.k = "lit" -> Parsed(IF t.v = "null" THEN PyNone ELSE PyBool(t.v), i + 1)
        [] t = LB ->
             LET j == SkipWs(toks, i + 1) IN
             IF IsP(toks, j, "}") THEN Parsed(PyDict(<<>>), j + 1)
             ELSE ParseMembers(toks, j, PyDict(<<>>))
        [] t = LK ->
             LET j == SkipWs(toks, i + 1) IN
             IF IsP(toks, j, "]") THEN Parsed(PyList(<<>>), j + 1)
             ELSE ParseElements(toks, j, <<>>)
        [] OTHER -> NoParse

\* toks[i] must be a key; acc holds the members read so far
ParseMembers(toks, i, acc) ==
    IF i > Len(toks) \/ toks[i].k # "str" THEN NoParse
    ELSE LET c == SkipWs(toks, i + 1) IN
      IF ~IsP(toks, c, ":") THEN NoParse
      ELSE LET r == ParseValue(toks, SkipWs(toks, c + 1)) IN
        IF ~r.ok THEN NoParse
        ELSE LET d == DictSet(acc, toks[i].v, r.v)
                 e == SkipWs(toks, r.next)
             IN IF IsP(toks, e, "}") THEN Parsed(d, e + 1)
                ELSE IF IsP(toks, e, ",")
                     THEN ParseMembers(toks, SkipWs(toks, e + 1), d)
                     ELSE NoParse

\* toks[i] must start an element; acc holds the elements read so far
ParseElements(toks, i, acc) ==
    LET r == ParseValue(toks, i) IN
    IF ~r.ok THEN NoParse
    ELSE LET l == Append(acc, Item("", r.v))
             e == SkipWs(toks, r.next)
         IN IF IsP(toks, e, "]") THEN Parsed(PyList(l), e + 1)
            ELSE IF IsP(toks, e, ",")
                 THEN ParseElements(toks, SkipWs(toks, e + 1), l)
                 ELSE NoParse

json_loads(text) ==
    LET r == ParseValue(text, SkipWs(text, 1)) IN
    IF r.ok /\ SkipWs(text, r.next) = Len(text) + 1 THEN r ELSE NoParse

(***************************************************************************)
(* generate_word_info, lines 85-94: the text is parsed and the word is     *)
(* stored under "word".  json.loads raises on text that is not JSON, and   *)
(* the item assignment raises TypeError on a value that is no dict; the    *)
(* bare except takes both, appends to the failure log and returns None.    *)
(***************************************************************************)
LogLine(w, text) == <<Bare(w), SP>> \o text \o <<NL>>

FileAppend(content, data) == content \o data

FileTruncateWrite(content, data) == data

generate_word_info_NoWord(w, text, file) ==
    LET r == json_loads(text) IN
    IF r.ok /\ r.v.t = "dict"
    THEN [ret |-> r.v, log |-> file]
    ELSE [ret |-> PyNone, log |-> FileAppend(file, LogLine(w, text))]

generate_word_info_Truncate(w, text, file) ==
    LET r == json_loads(text) IN
    IF r.ok /\ r.v.t = "dict"
    THEN [ret |-> DictSet(r.v, "word", PyStr(w)), log |-> file]
    ELSE [ret |-> PyNone, log |-> FileTruncateWrite(file, LogLine(w, text))]

generate_word_info(w, text, file) ==
    LET r == json_loads(text) IN
    IF r.ok /\ r.v.t = "dict"
    THEN [ret |-> DictSet(r.v, "word", PyStr(w)), log |-> file]
    ELSE [ret |-> PyNone, log |-> FileAppend(file, LogLine(w, text))]

\* the line breaks of a file's content
RECURSIVE Newlines(_)
Newlines(content) ==
    IF content = <<>> THEN 0
    ELSE (IF Head(content) = NL THEN 1 ELSE 0) + Newlines(Tail(content))

(***************************************************************************)
(* Response texts: the answers an LLM gives to the prompt of lines 54-64,  *)
(* and every text one token away from one of them.                         *)
(***************************************************************************)
DefText == Str("A red fruit.")
ExText == Str("For example, I ate an apple.")

TwoKeyText ==
    <<LB, Str("definition"), CL, SP, DefText, CM, SP, Str("example"), CL, SP, ExText, RB>>

BaseTexts ==
    { TwoKeyText,
      <<LB, NL, Str("definition"), CL, DefText, CM, NL, Str("example"), CL, ExText, NL, RB, NL>>,
      <<LB, Str("example"), CL, ExText, CM, Str("definition"), CL, DefText, RB>>,
      <<LB, Str("definition"), CL, Num("1"), CM, Str("example"), CL, Lit("null"), RB>>,
      <<LB, Str("definition"), CL, LK, DefText, RK, CM, Str("example"), CL, LB, RB, RB>>,
      <<LB, Str("definition"), CL, DefText, RB>>,
      <<LB, Str("example"), CL, ExText, RB>>,
      <<LB, Str("meaning"), CL, DefText, CM, Str("example"), CL, ExText, RB>>,
      <<LB, Str("word"), CL, Str("pear"), CM, Str("definition"), CL, DefText,
        CM, Str("example"), CL, ExText, RB>>,
      <<LB, Str("definition"), CL, DefText, CM, Str("definition"), CL, ExText, RB>>,
      <<LB, RB>>,
      <<LK, DefText, CM, ExText, RK>>,
      <<DefText>>,
      <<Num("1")>>,
      <<Lit("null")>>,
      <<LB, Sq("definition"), CL, Sq("A red fruit."), CM, Sq("example"), CL,
        Sq("I ate an apple."), RB>>,
      <<Bare("Here is the JSON:"), NL>> \o TwoKeyText \o <<NL, Bare("Hope this helps!")>>,
      <<Bare("Sure!"), SP, Bare("Here"), NL>> \o TwoKeyText,
      <<Bare("I"), SP, Bare("cannot"), SP, Bare("help")>>,
      <<>> }

DeleteAt(t, i) == SubSeq(t, 1, i - 1) \o SubSeq(t, i + 1, Len(t))

InsertAt(t, i, x) == SubSeq(t, 1, i - 1) \o <<x>> \o SubSeq(t, i, Len(t))

Texts ==
    BaseTexts
    \cup {DeleteAt(t, i) : <<t, i>> \in {<<t, i>> \in BaseTexts \X (1..20) : i <= Len(t)}}
    \cup {InsertAt(t, i, x) : <<t, i, x>> \in
             {<<t, i, x>> \in BaseTexts \X (1..20) \X {NL, Bare("Sure")} : i <= Len(t) + 1}}

word_list ==
    <<"a", "abandon", "ability", "able", "abortion", "about", "above", "abroad",
      "absence", "absolute", "absolutely", "absorb", "abuse", "academic", "accept",
      "access", "accident", "accompany", "accomplish", "according", "account",
      "accurate", "accuse", "achieve", "achievement", "achieve2", "acid",
      "acknowledge", "acquire", "across">>

\* word_list[i], Python's index from 0
WordAt(i) == word_list[i + 1]

PriorLogs == {<<>>, LogLine("able", <<Bare("oops")>>)}

(***************************************************************************)
(* combine_mp3s, lines 247-253: the loop adds each clip and then the pause *)
(* to the track, for every clip of the list.                               *)
(***************************************************************************)
pause_duration == 2000

Clip(ms) == [kind |-> "clip", ms |-> ms]
Silence(ms) == [kind |-> "silence", ms |-> ms]

RECURSIVE MixLoop(_, _, _, _)
MixLoop(durations, i, pause, combined_audio) ==
    IF i > Len(durations) THEN combined_audio
    ELSE MixLoop(durations, i + 1, pause,
                 (combined_audio \o <<Clip(durations[i])>>) \o <<Silence(pause)>>)

combine_mp3s(durations, pause) == MixLoop(durations, 1, pause, <<>>)

RECURSIVE Duration(_)
Duration(segments) ==
    IF segments = <<>> THEN 0 ELSE Head(segments).ms + Duration(Tail(segments))

RECURSIVE Sum(_)
Sum(durations) ==
    IF durations = <<>> THEN 0 ELSE Head(durations) + Sum(Tail(durations))

(***************************************************************************)
(* Files and paths.                                                        *)
(***************************************************************************)
Pptx == "temp.pptx"
Pdf == "temp.pdf"
Png == "temp.png"
WordMp3 == "word_speech.mp3"
DefinitionMp3 == "word_definition_speech.mp3"
ExampleMp3 == "word_example_speech.mp3"
CombinedMp3 == "combined_audio.mp3"

SpeechFiles == {WordMp3, DefinitionMp3, ExampleMp3}

\* lines 294-296, in the order they are removed
SpeechRemovals == <<WordMp3, DefinitionMp3, ExampleMp3>>

\* os.remove on each path of the list in turn: a path that is not there
\* raises FileNotFoundError, with the paths before it already removed
RECURSIVE RemoveEach(_, _)
RemoveEach(paths, files) ==
    IF paths = <<>> THEN [files |-> files, ok |-> TRUE]
    ELSE IF Head(paths) \in files
         THEN RemoveEach(Tail(paths), files \ {Head(paths)})
         ELSE [files |-> files, ok |-> FALSE]

ScratchFiles == {Pptx, Pdf, Png, CombinedMp3} \cup SpeechFiles

\* line 394: cache_dir + f"{count+1:02d}_" + word + ".mp4"
VideoPath(c, w) == [id |-> c + 1, word |-> w]

\* a video file of cache_dir: the path and the run that wrote the file, this
\* run or an earlier one (the directories are never cleared, lines 29-33)
VideoFile(p, r) == [id |-> p.id, word |-> p.word, run |-> r]

PathOf(v) == [id |-> v.id, word |-> v.word]

Paths(files) == {PathOf(v) : v \in files}

FileAt(files, p) == CHOOSE v \in files : PathOf(v) = p

\* writing a video file replaces the file at that path
WriteVideo(files, v) == {x \in files : PathOf(x) # PathOf(v)} \cup {v}

\* the f"{n:02d}" of line 394, for the numbers of the word list
TwoDigits ==
    << "01", "02", "03", "04", "05", "06", "07", "08", "09", "10",
       "11", "12", "13", "14", "15", "16", "17", "18", "19", "20",
       "21", "22", "23", "24", "25", "26", "27", "28", "29", "30" >>

\* a file of cache_dir that is no video, as a path
NoVideo(f) == [id |-> 0, word |-> f]

\* the strings s for which the file's name starts with s + "_"
Stems(p) ==
    IF p.id # 0 THEN {TwoDigits[p.id]}
    ELSE IF p.word = WordMp3 THEN {"word"}
    ELSE IF p.word = DefinitionMp3 THEN {"word", "word_definition"}
    ELSE IF p.word = ExampleMp3 THEN {"word", "word_example"}
    ELSE IF p.word = CombinedMp3 THEN {"combined"}
    ELSE {}

\* lines 385-390 and 373-378: for each id in turn, the files of the listing
\* whose name starts with the id and "_", in the listing's order
MatchesOf(id, listing) == SelectSeq(listing, LAMBDA p : id \in Stems(p))

RECURSIVE cache_files(_, _)
cache_files(ids, listing) ==
    IF ids = <<>> THEN <<>>
    ELSE MatchesOf(Head(ids), listing) \o cache_files(Tail(ids), listing)

\* os.listdir: the files of cache_dir, in any order
RECURSIVE Orders(_)
Orders(S) ==
    IF S = {} THEN {<<>>}
    ELSE UNION {{<<x>> \o rest : rest \in Orders(S \ {x})} : x \in S}

Listings(scratch, vs) == Orders(vs \cup {NoVideo(f) : f \in scratch})

\* line 384
videos_to_include == <<>>

\* line 400: output_dir + f"combined_{count-9}-{count}.mp4"
CombinedName(c) == [from |-> c - 9, to |-> c]

BatchSize == 10

\* line 399
FlushDueFromOne(c) == (c + 1) % BatchSize = 0

FlushDue(c) == c % BatchSize = 0

\* line 398
PrependPath(list, p) == <<p>> \o list

AppendPath(list, p) == Append(list, p)

\* line 401
KeepBatch(list) == list

ResetBatch(list) == <<>>

\* lines 348-350, in the order they are removed
CleanupLeavesImage == <<Pptx, CombinedMp3>>

CleanupFiles == <<Pptx, Png, CombinedMp3>>

(***************************************************************************)
(* One call of generate_word_info (SpecWordInfo).                          *)
(***************************************************************************)
InitWordInfo ==
    /\ pc = "wi_call"
    /\ word \in {WordAt(1), WordAt(3)}
    /\ response \in Texts
    /\ log \in PriorLogs
    /\ log0 = log
    /\ start = 0 /\ stop = 0 /\ count = 0
    /\ word_info = PyNone /\ video_paths = <<>>
    /\ cache = {} /\ videos = {} /\ outputs = {}
    /\ calls = <<>> /\ results = <<>> /\ consumed = {} /\ scratch0 = {}
    /\ fault = "none" /\ ret = PyNone
    /\ clips = <<>> /\ track = <<>>

WordInfoCall ==
    /\ pc = "wi_call"
    /\ LET r == generate_word_info(word, response, log) IN
         /\ ret' = r.ret
         /\ log' = r.log
    /\ pc' = "wi_ret"
    /\ UNCHANGED <<start, stop, count, word_info, video_paths, cache, videos,
                   outputs, log0, calls, results, consumed, scratch0, fault,
                   response, word, clips, track>>

NextWordInfo == WordInfoCall

SpecWordInfo == InitWordInfo /\ [][NextWordInfo]_vars

(***************************************************************************)
(* One call of combine_mp3s (SpecAudio).                                   *)
(***************************************************************************)
MaxClips == 3

ClipDurations == {0, 700, 1500, 2000}

ClipLists == UNION {[1..n -> ClipDurations] : n \in 0..MaxClips}

InitAudio ==
    /\ pc = "mix_call"
    /\ clips \in ClipLists
    /\ track = <<>>
    /\ start = 0 /\ stop = 0 /\ count = 0
    /\ word_info = PyNone /\ video_paths = <<>>
    /\ cache = {} /\ videos = {} /\ outputs = {}
    /\ log = <<>> /\ log0 = <<>>
    /\ calls = <<>> /\ results = <<>> /\ consumed = {} /\ scratch0 = {}
    /\ fault = "none" /\ ret = PyNone
    /\ response = <<>> /\ word = ""

MixCall ==
    /\ pc = "mix_call"
    /\ track' = combine_mp3s(clips, pause_duration)
    /\ pc' = "mix_ret"
    /\ UNCHANGED <<start, stop, count, word_info, video_paths, cache, videos,
                   outputs, log, log0, calls, results, consumed, scratch0,
                   fault, ret, response, word, clips>>

NextAudio == MixCall

SpecAudio == InitAudio /\ [][NextAudio]_vars

(***************************************************************************)
(* The word loop of __main__ (Spec), lines 382-401, with                   *)
(* generate_video_for_word, lines 317-355, taken stage by stage.  Every    *)
(* call into an API, a subprocess or a media library may raise; nothing    *)
(* but the bare except of generate_word_info catches, so the run ends.     *)
(***************************************************************************)
\* line 383: count = 10, the offset into word_list
count_init == 10

\* the offsets tried: the coded one and those up to MaxShift away from it
MaxShift == 2

MaxWords == 10

\* what a run that faulted while encoding a video left in cache_dir
VideoFaultLeftover == {Pptx, Png, CombinedMp3}

\* a file of output_dir: the video files it was made of, and whether the
\* write that made it returned
Combined(name, files, complete) ==
    [name |-> name, clips |-> files, complete |-> complete]

\* what earlier runs left in cache_dir
EarlierVideos ==
    {VideoFile(VideoPath(2, WordAt(2)), "earlier"),
     VideoFile(VideoPath(10, WordAt(10)), "earlier")}

\* what earlier runs left in output_dir
EarlierOutputs ==
    {Combined(CombinedName(20),
              <<VideoFile(VideoPath(10, WordAt(10)), "earlier")>>, TRUE)}

EarlierLog == LogLine(WordAt(3), <<Bare("oops")>>)

\* the directories and the failure log as the run finds them: nothing is
\* cleared at the start, so they are as earlier runs left them: none; one
\* that faulted on its first video; ones that ended; ones of which the last
\* faulted on a later video
EarlierRuns ==
    { [cache |-> {}, videos |-> {}, outputs |-> {}, log |-> <<>>],
      [cache |-> VideoFaultLeftover, videos |-> {}, outputs |-> {}, log |-> <<>>],
      [cache |-> {}, videos |-> EarlierVideos, outputs |-> EarlierOutputs,
       log |-> EarlierLog],
      [cache |-> VideoFaultLeftover, videos |-> EarlierVideos,
       outputs |-> EarlierOutputs, log |-> EarlierLog] }

\* the answers the loop's LLM calls draw from: complete, not JSON, incomplete
LoopResponses ==
    { TwoKeyText,
      <<Bare("Sure!"), SP, Bare("Here"), NL>> \o TwoKeyText,
      <<LB, Str("definition"), CL, DefText, RB>> }

Init ==
    /\ pc = "loop"
    /\ start \in (count_init - MaxShift)..(count_init + MaxShift)
    /\ stop \in start..(start + MaxWords)
    /\ count = start
    /\ word_info = PyNone
    /\ \E e \in EarlierRuns :
         /\ cache = e.cache /\ videos = e.videos
         /\ outputs = e.outputs /\ log = e.log
    /\ \E listing \in Listings(cache, Paths(videos)) :
         video_paths = cache_files(videos_to_include, listing)
    /\ log0 = <<>>
    /\ calls = <<>> /\ results = <<>> /\ consumed = {} /\ scratch0 = cache
    /\ fault = "none" /\ ret = FALSE
    /\ response = <<>> /\ word = "" /\ clips = <<>> /\ track = <<>>

study == <<log0, response, clips, track>>

\* an exception nothing catches
Raise(kind) == pc' = "crashed" /\ fault' = kind

\* a stage that faulted while writing f left f behind, whole or in part, or not
FaultWriting(files, f) == {files, files \cup {f}}

\* lines 393-395 and 321-324: the next word, its LLM call and parse
GenerateWordInfo ==
    /\ pc = "loop" /\ count < stop
    /\ word' = WordAt(count)
    /\ scratch0' = cache
    /\ consumed' = {}
    /\ \/ /\ Raise("external")
          /\ UNCHANGED <<word_info, log, ret>>
       \/ \E text \in LoopResponses :
            LET r == generate_word_info(WordAt(count), text, log) IN
              /\ log' = r.log
              /\ word_info' = r.ret
              /\ IF r.ret = PyNone
                 THEN pc' = "tail" /\ ret' = FALSE
                 ELSE pc' = "image" /\ ret' = ret
              /\ fault' = fault
    /\ UNCHANGED <<start, stop, count, video_paths, cache, videos, outputs,
                   calls, results, study>>

\* lines 107-111 read the three keys; lines 113-158 call the image service
GenerateImage ==
    /\ pc = "image"
    /\ IF {"word", "definition", "example"} \subseteq Keys(word_info)
       THEN \/ pc' = "slide" /\ fault' = fault
            \/ Raise("external")
       ELSE Raise("KeyError")
    /\ UNCHANGED <<start, stop, count, word_info, video_paths, cache, videos,
                   outputs, log, calls, results, consumed, scratch0, ret,
                   word, study>>

\* lines 171-208
GenerateSlide ==
    /\ pc = "slide"
    /\ \/ cache' = cache \cup {Pptx} /\ pc' = "soffice" /\ fault' = fault
       \/ cache' \in FaultWriting(cache, Pptx) /\ Raise("external")
    /\ UNCHANGED <<start, stop, count, word_info, video_paths, videos,
                   outputs, log, calls, results, consumed, scratch0, ret,
                   word, study>>

\* line 226
Soffice ==
    /\ pc = "soffice"
    /\ \/ /\ cache' = cache \cup {Pdf}
          /\ consumed' = consumed \cup {Pptx}
          /\ pc' = "pdftoppm" /\ fault' = fault
       \/ /\ cache' \in FaultWriting(cache, Pdf)
          /\ consumed' = consumed
          /\ Raise("external")
    /\ UNCHANGED <<start, stop, count, word_info, video_paths, videos,
                   outputs, log, calls, results, scratch0, ret, word, study>>

\* line 229
Pdftoppm ==
    /\ pc = "pdftoppm"
    /\ \/ /\ cache' = cache \cup {Png}
          /\ consumed' = consumed \cup {Pdf}
          /\ pc' = "rm_pdf" /\ fault' = fault
       \/ /\ cache' \in FaultWriting(cache, Png)
          /\ consumed' = consumed
          /\ Raise("external")
    /\ UNCHANGED <<start, stop, count, word_info, video_paths, videos,
                   outputs, log, calls, results, scratch0, ret, word, study>>

\* line 231: os.remove raises on a file that is not there
RemovePdf ==
    /\ pc = "rm_pdf"
    /\ LET r == RemoveEach(<<Pdf>>, cache) IN
         /\ cache' = r.files
         /\ IF r.ok THEN pc' = "tts_word" /\ fault' = fault
            ELSE Raise("FileNotFoundError")
    /\ UNCHANGED <<start, stop, count, word_info, video_paths, videos,
                   outputs, log, calls, results, consumed, scratch0, ret,
                   word, study>>

\* one text-to-speech call streamed to file f
Tts(at, f, next) ==
    /\ pc = at
    /\ \/ cache' = cache \cup {f} /\ pc' = next /\ fault' = fault
       \/ cache' \in FaultWriting(cache, f) /\ Raise("external")
    /\ UNCHANGED <<start, stop, count, word_info, video_paths, videos,
                   outputs, log, calls, results, consumed, scratch0, ret,
                   word, study>>

\* lines 266-272
TtsWord == Tts("tts_word", WordMp3, "tts_definition")

\* lines 274-280
TtsDefinition == Tts("tts_definition", DefinitionMp3, "tts_example")

\* lines 282-288
TtsExample == Tts("tts_example", ExampleMp3, "mix")

\* lines 290-292
MixAudio ==
    /\ pc = "mix"
    /\ \/ /\ cache' = cache \cup {CombinedMp3}
          /\ consumed' = consumed \cup SpeechFiles
          /\ pc' = "rm_speech" /\ fault' = fault
       \/ /\ cache' \in FaultWriting(cache, CombinedMp3)
          /\ consumed' = consumed
          /\ Raise("external")
    /\ UNCHANGED <<start, stop, count, word_info, video_paths, videos,
                   outputs, log, calls, results, scratch0, ret, word, study>>

\* lines 294-296
RemoveSpeech ==
    /\ pc = "rm_speech"
    /\ LET r == RemoveEach(SpeechRemovals, cache) IN
         /\ cache' = r.files
         /\ IF r.ok THEN pc' = "video" /\ fault' = fault
            ELSE Raise("FileNotFoundError")
    /\ UNCHANGED <<start, stop, count, word_info, video_paths, videos,
                   outputs, log, calls, results, consumed, scratch0, ret,
                   word, study>>

\* lines 310-314 and 344
GenerateVideoFile ==
    /\ pc = "video"
    /\ \/ /\ videos' = WriteVideo(videos, VideoFile(VideoPath(count, word), "this"))
          /\ consumed' = consumed \cup {Png, CombinedMp3}
          /\ pc' = "cleanup" /\ fault' = fault
       \/ /\ videos' \in {videos,
                          WriteVideo(videos, VideoFile(VideoPath(count, word), "this"))}
          /\ consumed' = consumed
          /\ Raise("external")
    /\ UNCHANGED <<start, stop, count, word_info, video_paths, cache,
                   outputs, log, calls, results, scratch0, ret, word, study>>

\* lines 348-355
Cleanup ==
    /\ pc = "cleanup"
    /\ LET r == RemoveEach(CleanupFiles, cache) IN
         /\ cache' = r.files
         /\ IF r.ok THEN ret' = TRUE /\ pc' = "tail" /\ fault' = fault
            ELSE ret' = ret /\ Raise("FileNotFoundError")
    /\ UNCHANGED <<start, stop, count, word_info, video_paths, videos,
                   outputs, log, calls, results, consumed, scratch0, word,
                   study>>

\* lines 395-399: the call has returned; count, the batch list, the flush test
LoopTail ==
    /\ pc = "tail"
    /\ count' = count + 1
    /\ video_paths' = IF ret THEN AppendPath(video_paths, VideoPath(count, word))
                      ELSE video_paths
    /\ results' = Append(results, ret)
    /\ word_info' = PyNone
    /\ consumed' = {}
    /\ pc' = IF FlushDue(count + 1) THEN "combine" ELSE "loop"
    /\ UNCHANGED <<start, stop, cache, videos, outputs, log, calls, scratch0,
                   fault, ret, word, study>>

\* writing a file replaces the file of that name
WriteOutput(files, f) == {o \in files : o.name # f.name} \cup {f}

\* combine_videos, lines 365-367: VideoFileClip opens each path and raises on
\* one that is no video file of cache_dir; concatenate_videoclips takes the
\* largest clip size and raises ValueError when there is no clip;
\* write_videofile writes straight to output_path, so a fault while it
\* writes may leave a partial file there.  On return control is at `next`.
combine_videos(list, name, next) ==
    /\ calls' = Append(calls, list)
    /\ IF \E i \in 1..Len(list) : list[i] \notin Paths(videos)
       THEN Raise("OSError") /\ outputs' = outputs
       ELSE IF list = <<>>
       THEN Raise("ValueError") /\ outputs' = outputs
       ELSE LET video_clips == [i \in 1..Len(list) |-> FileAt(videos, list[i])] IN
            \/ /\ outputs' = WriteOutput(outputs, Combined(name, video_clips, TRUE))
               /\ pc' = next /\ fault' = fault
            \/ /\ outputs' \in {outputs,
                                WriteOutput(outputs, Combined(name, video_clips, FALSE))}
               /\ Raise("external")

\* lines 400-401
CombineVideos ==
    /\ pc = "combine"
    /\ combine_videos(video_paths, CombinedName(count), "loop")
    /\ video_paths' = IF pc' = "loop" THEN ResetBatch(video_paths) ELSE video_paths
    /\ UNCHANGED <<start, stop, count, word_info, cache, videos, log, results,
                   consumed, scratch0, ret, word, study>>

\* the slice word_list[count:stop] is used up
LoopEnd ==
    /\ pc = "loop" /\ count >= stop
    /\ pc' = "done"
    /\ UNCHANGED <<start, stop, count, word_info, video_paths, cache, videos,
                   outputs, log, calls, results, consumed, scratch0, fault,
                   ret, word, study>>

Next ==
    \/ GenerateWordInfo \/ GenerateImage \/ GenerateSlide
    \/ Soffice \/ Pdftoppm \/ RemovePdf
    \/ TtsWord \/ TtsDefinition \/ TtsExample \/ MixAudio \/ RemoveSpeech
    \/ GenerateVideoFile \/ Cleanup \/ LoopTail \/ CombineVideos \/ LoopEnd

Spec == Init /\ [][Next]_vars

(***************************************************************************)
(* One call of combine_videos_from_cache_files (SpecFromCache).  __main__   *)
(* does not call it: its one call, line 403, is commented out.             *)
(***************************************************************************)
MaxIds == 2

IdPool == {"11", "12", "1", "word", "combined"}

IdLists == UNION {[1..n -> IdPool] : n \in 0..MaxIds}

\* videos of earlier runs: two of one id, from runs over different lists
CachedVideos ==
    {VideoFile(VideoPath(10, WordAt(10)), "earlier"),
     VideoFile(VideoPath(10, WordAt(3)), "earlier"),
     VideoFile(VideoPath(11, WordAt(11)), "earlier")}

\* what a run that faulted while writing the definition's speech (lines
\* 274-280) left in cache_dir
TtsFaultLeftover == {Pptx, Png, WordMp3, DefinitionMp3}

InitFromCache ==
    /\ pc = "fc_call"
    /\ videos \in SUBSET CachedVideos
    /\ cache \in {{}, TtsFaultLeftover, VideoFaultLeftover}
    /\ outputs \in {{}, EarlierOutputs}
    /\ start = 0 /\ stop = 0 /\ count = 0
    /\ word_info = PyNone /\ video_paths = <<>>
    /\ log = <<>> /\ log0 = <<>>
    /\ calls = <<>> /\ results = <<>> /\ consumed = {} /\ scratch0 = cache
    /\ fault = "none" /\ ret = FALSE
    /\ response = <<>> /\ word = "" /\ clips = <<>> /\ track = <<>>

\* lines 369-379, called as on line 403
combine_videos_from_cache_files ==
    /\ pc = "fc_call"
    /\ \E video_ids \in IdLists : \E listing \in Listings(cache, Paths(videos)) :
         combine_videos(cache_files(video_ids, listing), CombinedName(20), "fc_ret")
    /\ UNCHANGED <<start, stop, count, word_info, video_paths, cache, videos, log,
                   results, consumed, scratch0, ret, word, study>>

NextFromCache == combine_videos_from_cache_files

SpecFromCache == InitFromCache /\ [][NextFromCache]_vars

(***************************************************************************)
(* Claims about generate_word_info (SpecWordInfo).                         *)
(***************************************************************************)
Returned == pc = "wi_ret"

NotJson(text) == ~json_loads(text).ok

\* C1, as stated: for a response that is not valid JSON, generate_word_info
\* returns None and failed_words.txt grows by exactly one line, which holds
\* the word and then the raw text; the earlier content is unchanged.
C1_LogGrowsByOneLine ==
    (Returned /\ NotJson(response)) =>
        /\ ret = PyNone
        /\ Len(log) = Len(log0) + Len(response) + 3
        /\ SubSeq(log, 1, Len(log0)) = log0
        /\ log[Len(log0) + 1] = Bare(word)
        /\ SubSeq(log, Len(log0) + 3, Len(log) - 1) = response
        /\ Newlines(log) = Newlines(log0) + 1

\* C1, amended: for a response that is not valid JSON, generate_word_info
\* returns None and failed_words.txt grows by exactly the text
\* word, blank, raw response, line break, after its unchanged earlier
\* content: one line more for a response without line breaks, and 1 + k
\* lines more for a response holding k line breaks.
C1_LogGrowsByOneRecord ==
    (Returned /\ NotJson(response)) =>
        /\ ret = PyNone
        /\ Len(log) = Len(log0) + Len(response) + 3
        /\ SubSeq(log, 1, Len(log0)) = log0
        /\ log[Len(log0) + 1] = Bare(word)
        /\ log[Len(log0) + 2] = SP
        /\ SubSeq(log, Len(log0) + 3, Len(log) - 1) = response
        /\ log[Len(log)] = NL
        /\ Newlines(log) = Newlines(log0) + 1 + Newlines(response)

C1_Witness ==
    /\ Returned /\ NotJson(response)
    /\ log0 # <<>> /\ Newlines(response) = 2 /\ Len(log) > Len(log0)

NonWs(text) == SelectSeq(text, LAMBDA t : t.k # "ws")

IsScalar(tok) == tok.k \in {"str", "num", "lit"}

ScalarOf(tok) ==
    CASE tok.k = "str" -> PyStr(tok.v)
      [] tok.k = "num" -> PyNum(tok.v)
      [] tok.k = "lit" /\ tok.v = "null" -> PyNone
      [] OTHER -> PyBool(tok.v)

\* the text is  { "k1" : v1 , "k2" : v2 }  with the keys definition and
\* example in either order, scalar values, and any white space between
TwoKeyShape(text) ==
    LET t == NonWs(text) IN
    /\ Len(t) = 9
    /\ t[1] = LB /\ t[3] = CL /\ t[5] = CM /\ t[7] = CL /\ t[9] = RB
    /\ t[2].k = "str" /\ t[6].k = "str"
    /\ IsScalar(t[4]) /\ IsScalar(t[8])
    /\ t[2].v # t[6].v
    /\ {t[2].v, t[6].v} = {"definition", "example"}

ValueAfterKey(text, key) ==
    LET t == NonWs(text) IN IF t[2].v = key THEN ScalarOf(t[4]) ELSE ScalarOf(t[8])

WordInfoKeys == {"word", "definition", "example"}

\* C2: for a response that is a JSON object with exactly the keys definition
\* and example, generate_word_info returns a record whose word is the word
\* it was given and whose definition and example are the values of the
\* text, and the failure log is left as it was.
C2_TwoKeyRecord ==
    Returned =>
      /\ TwoKeyShape(response) =>
            /\ ret.t = "dict"
            /\ Keys(ret) = WordInfoKeys
            /\ Get(ret, "word") = PyStr(word)
            /\ Get(ret, "definition") = ValueAfterKey(response, "definition")
            /\ Get(ret, "example") = ValueAfterKey(response, "example")
            /\ log = log0
      /\ LET r == json_loads(response) IN
         (r.ok /\ r.v.t = "dict" /\ Keys(r.v) = {"definition", "example"}) =>
            /\ ret.t = "dict"
            /\ Keys(ret) = WordInfoKeys
            /\ Get(ret, "word") = PyStr(word)
            /\ Get(ret, "definition") = Get(r.v, "definition")
            /\ Get(ret, "example") = Get(r.v, "example")
            /\ log = log0

C2_Witness ==
    /\ Returned /\ TwoKeyShape(response) /\ Newlines(response) > 0
    /\ ret.t = "dict" /\ Get(ret, "word") = PyStr(word) /\ log0 # <<>>

\* C10: every value generate_word_info returns other than None holds the
\* three keys word, definition and example, whatever the response text.
C10_ReturnedRecordIsComplete ==
    (Returned /\ ret # PyNone) => WordInfoKeys \subseteq Keys(ret)

(***************************************************************************)
(* Claim about combine_mp3s (SpecAudio).                                   *)
(***************************************************************************)
\* C6: for a non-empty list of clips the track is the clips in order with a
\* 2000 ms silence between consecutive clips only: it lasts the clips'
\* durations plus 2000 ms per gap, and does not end with a silence.
C6_SilenceOnlyBetweenClips ==
    (pc = "mix_ret" /\ clips # <<>>) =>
        /\ Duration(track) = Sum(clips) + 2000 * (Len(clips) - 1)
        /\ track[Len(track)].kind = "clip"
        /\ SelectSeq(track, LAMBDA g : g.kind = "clip") = [i \in 1..Len(clips) |-> Clip(clips[i])]

(***************************************************************************)
(* Claims about the word loop (Spec).                                      *)
(***************************************************************************)
DownstreamStages ==
    {"image", "slide", "soffice", "pdftoppm", "rm_pdf", "tts_word",
     "tts_definition", "tts_example", "mix", "rm_speech", "video", "cleanup"}

\* the outcome of the word at index j of word_list, once it has been processed
ResultOf(j) == results[j - start + 1]

RangeOf(list) == {list[i] : i \in 1..Len(list)}

\* the combined videos: the files a combine_videos call that returned wrote
CombinedVideos == {o \in outputs : o.complete}

Max(a, b) == IF a >= b THEN a ELSE b

\* the video paths of the words lo..hi-1 that succeeded, in word order
RECURSIVE SuccessPaths(_, _)
SuccessPaths(lo, hi) ==
    IF lo >= hi THEN <<>>
    ELSE (IF ResultOf(lo) THEN <<VideoPath(lo, WordAt(lo))>> ELSE <<>>)
         \o SuccessPaths(lo + 1, hi)

\* C3: for a word whose word info is the sentinel no downstream stage runs
\* and no video path enters the batch list, and the loop goes on to the
\* next word of the list: the run does not end there.
C3_SentinelSkipsWordAndGoesOn ==
    /\ pc \in DownstreamStages => word_info # PyNone
    /\ \A p \in RangeOf(video_paths) : ResultOf(p.id - 1)
    /\ ~ ( /\ pc = "crashed" /\ fault # "external"
           /\ results # <<>> /\ ~results[Len(results)]
           /\ calls # <<>> /\ calls[Len(calls)] = <<>>
           /\ count < stop )

\* C4, as stated: combine_videos is invoked exactly when the successes since
\* the last flush reach 10, so every list passed holds exactly 10 paths.
C4_FlushAtTenSuccesses ==
    /\ pc = "combine" <=> Len(video_paths) = BatchSize
    /\ \A i \in 1..Len(calls) : Len(calls[i]) = BatchSize

\* the flushes among the counts start+1 .. c
FlushesUpTo(c) == (c \div BatchSize) - (start \div BatchSize)

\* the first word of the batch that the i-th flush of the run closes
BatchLow(i) == Max(start, ((start \div BatchSize) + i - 1) * BatchSize)

BatchHigh(i) == ((start \div BatchSize) + i) * BatchSize

\* C4, amended: combine_videos is invoked exactly when the running count
\* (the offset plus the words processed, failed ones included) reaches a
\* multiple of 10; the list passed holds the video paths of the words that
\* succeeded among those processed since the previous flush (or the start),
\* in word order, between 0 and 10 of them; the batch list is empty after a
\* flush that returned.
C4_FlushAtTenWords ==
    /\ pc = "combine" => (count % BatchSize = 0 /\ count > start)
    /\ Len(results) = count - start
    /\ Len(calls) = FlushesUpTo(count) - (IF pc = "combine" THEN 1 ELSE 0)
    /\ \A i \in 1..Len(calls) :
          /\ calls[i] = SuccessPaths(BatchLow(i), BatchHigh(i))
          /\ Len(calls[i]) <= BatchSize
    /\ pc = "combine" =>
          video_paths = SuccessPaths(Max(start, count - BatchSize), count)
    /\ pc \notin {"combine", "crashed"} =>
          video_paths = SuccessPaths(Max(start, (count \div BatchSize) * BatchSize), count)

C4_Witness ==
    /\ pc = "loop" /\ Len(calls) = 1 /\ video_paths = <<>>
    /\ Len(calls[1]) = 8 /\ Len(results) = BatchSize

AllSucceeded == \A i \in 1..Len(results) : results[i]

TenPaths == [i \in 1..BatchSize |-> VideoPath(start + i - 1, WordAt(start + i - 1))]

\* C5, as stated: from any offset, 10 consecutive words that all succeed
\* give exactly one combine_videos call, on their 10 video paths in order.
C5_TenWordsOneCombine ==
    (pc = "done" /\ stop - start = BatchSize /\ AllSucceeded) =>
        (Len(calls) = 1 /\ calls[1] = TenPaths)

\* C5, amended: from an offset that is a multiple of 10 (as the coded
\* count = 10), 10 consecutive words that all succeed give exactly one
\* combine_videos call, on their 10 video paths in word-list order.
C5_TenWordsOneCombineAligned ==
    (pc = "done" /\ stop - start = BatchSize /\ AllSucceeded
        /\ start % BatchSize = 0) =>
        (Len(calls) = 1 /\ calls[1] = TenPaths)

C5_Witness ==
    /\ pc = "done" /\ start = 10 /\ stop = 20 /\ AllSucceeded
    /\ Len(calls) = 1 /\ Len(calls[1]) = BatchSize

\* C7: combine_videos is never invoked with an empty list.
C7_NeverCombinesEmptyList == \A i \in 1..Len(calls) : calls[i] # <<>>

\* C8, as stated: when generate_video_for_word has returned, True or False,
\* no scratch file is in the cache directory.
C8_NoScratchAfterReturn == pc = "tail" => cache \cap ScratchFiles = {}

C8_AfterReturn ==
    /\ pc = "tail" => IF ret THEN cache \cap ScratchFiles = {} ELSE cache = scratch0
    /\ pc = "loop" => (cache = {} \/ cache = scratch0)

C8_Step ==
    /\ \A f \in ScratchFiles : (f \in cache /\ f \notin cache') => f \in consumed
    /\ scratch0' \subseteq scratch0

\* C8, amended: when generate_video_for_word has returned True no scratch
\* file is in the cache directory; when it has returned False it has
\* created and deleted nothing, so the cache is as the call found it; a
\* scratch file is deleted only after the stage that reads it has run; the
\* scratch files found at the start of a word never grow from word to word,
\* so a run that starts with none finds none at the start of every word.
C8_ScratchLifetime == []C8_AfterReturn /\ [][C8_Step]_vars

C8_Witness ==
    /\ pc = "tail" /\ ret /\ scratch0 # {} /\ cache = {} /\ results # <<>>

\* the leftover the initial caches assume is what a faulting run leaves
LeftoverIsReachable ==
    ~(pc = "crashed" /\ scratch0 = {} /\ cache = VideoFaultLeftover)

\* the files this run has written
VideosOfRun == {v \in videos : v.run = "this"}

OutputsOfRun == {o \in outputs : \E v \in RangeOf(o.clips) : v.run = "this"}

\* the count at the last flush of this run that returned, the offset if
\* there was none
LastFlush == IF CombinedVideos \cap OutputsOfRun = {} THEN start
             ELSE CHOOSE c \in {o.name.to : o \in CombinedVideos \cap OutputsOfRun} :
                      \A o \in CombinedVideos \cap OutputsOfRun : o.name.to <= c

InCombinedVideo(v) == \E o \in CombinedVideos : v \in RangeOf(o.clips)

\* the video the run wrote for the word at index j
VideoOf(j) == VideoFile(VideoPath(j, WordAt(j)), "this")

C9_AtFault ==
    /\ pc = "crashed" =>
          /\ \A p \in RangeOf(video_paths) :
                /\ VideoFile(p, "this") \in videos
                /\ ~InCombinedVideo(VideoFile(p, "this"))
          /\ \A j \in start..(count - 1) :
                (j - start < Len(results) /\ ResultOf(j)) =>
                   /\ VideoOf(j) \in videos
                   /\ InCombinedVideo(VideoOf(j)) <=> j < LastFlush
                   /\ j >= LastFlush => VideoPath(j, WordAt(j)) \in RangeOf(video_paths)
    /\ \A o1, o2 \in outputs : o1.name = o2.name => o1 = o2

\* the step of a fault leaves every video and combined file as it was
C9_FaultStepKeepsAll ==
    /\ pc # "crashed"
    /\ pc' = "crashed" => (videos \subseteq videos' /\ outputs \subseteq outputs')

\* C9, as stated: a fault in any stage but the JSON parse ends the run
\* there: no further word is processed and combine_videos is not called
\* again; the videos produced since the last flush exist as files and are
\* in no combined video; every video and combined video written before the
\* fault is left unchanged.
C9_FaultKeepsEveryFile == []C9_AtFault /\ [][C9_FaultStepKeepsAll]_vars

C9_Step ==
    /\ pc # "crashed"
    /\ VideosOfRun \subseteq videos'
    /\ OutputsOfRun \subseteq outputs'
    /\ pc' = "crashed" =>
          /\ \A v \in videos \ videos' :
                pc = "video" /\ PathOf(v) = VideoPath(count, word)
          /\ \A o \in outputs \ outputs' :
                pc = "combine" /\ o.name = CombinedName(count)

\* C9, amended: a fault in any stage but the JSON parse ends the run there:
\* no further word is processed and combine_videos is not called again; the
\* videos this run produced since its last flush exist as files and are in
\* no combined video; the videos and combined videos this run wrote stay as
\* they are, and of the files earlier runs left the fault changes at most
\* the one at the path being written when it struck (the faulting word's
\* video path, or the path of the combined video being written).
C9_FaultEndsRun == []C9_AtFault /\ [][C9_Step]_vars

C9_Witness ==
    /\ pc = "crashed" /\ fault = "external"
    /\ CombinedVideos \cap OutputsOfRun # {} /\ video_paths # <<>> /\ count < stop
    /\ outputs \ OutputsOfRun # {}

====
